---- MODULE Spec2Model ----
(***************************************************************************)
(* GeoJSONWorkerSource (src/source/geojson_worker_source.js): the registry *)
(* of per-source tile indexes, loadData / loadGeoJSON, the tile query      *)
(* loadGeoJSONTile, reloadTile and removeSource.                           *)
(***************************************************************************)
EXTENDS Integers, Sequences, FiniteSets, TLC

(* ------------------------------ bounds --------------------------------- *)
MaxCalls == 2    \* loadData calls in one behaviour
MaxZ == 2        \* highest requested zoom

Sources == {"a", "b"}
Uids == {1}
\* Requested tiles: the lowest zoom, the highest and the one below it, with x
\* and y that differ and are not 0.
Coords == [z : {0, MaxZ - 1, MaxZ}, x : {1}, y : {2}]
\* params.maxZoom: below, at and above it there are requested zooms.
MaxZooms == {MaxZ - 1}
DataIds == {1}

(* --------------------------- JavaScript values ------------------------- *)
JSValue(t, n) == [t |-> t, n |-> n]
Undefined == JSValue("undefined", 0)
JSNull == JSValue("null", 0)

\* ToBoolean of a value: undefined, null, 0, "" and false are falsy.
Truthy(v) ==
    CASE v.t \in {"undefined", "null"} -> FALSE
      [] v.t \in {"number", "string", "boolean"} -> v.n # 0
      [] OTHER -> TRUE

\* The typeof operator: null and arrays are "object".
TypeOf(v) ==
    CASE v.t = "undefined" -> "undefined"
      [] v.t = "number" -> "number"
      [] v.t = "string" -> "string"
      [] v.t = "boolean" -> "boolean"
      [] OTHER -> "object"

\* Values a JSON text can parse to.
ParsedValues ==
    {JSNull, JSValue("number", 1), JSValue("array", 0)} \cup {JSValue("object", d) : d \in DataIds}

\* params.data: absent, a string holding some text, or an already parsed object.
\* A string's text is either unparsable ("garbage") or the encoding of a value.
StringData(form, n) == [t |-> "string", form |-> form, n |-> n]
NoData == [t |-> "undefined", form |-> "", n |-> 0]
LiteralData ==
    {NoData, StringData("garbage", 0)}
        \cup {StringData(v.t, v.n) : v \in ParsedValues}
        \cup {[t |-> "object", form |-> "object", n |-> d] : d \in DataIds}

\* JSON.parse: throws on unparsable text, otherwise yields the encoded value.
JSONparse(data) ==
    IF data.form = "garbage"
    THEN [ok |-> FALSE, value |-> Undefined]
    ELSE [ok |-> TRUE, value |-> JSValue(data.form, data.n)]

(* ------------------------------- errors -------------------------------- *)
NoErr == "null"
InvalidInputError == "Input data is not a valid GeoJSON object."
FetchError == "FetchError"
BuildError == "IndexBuildError"

(* ------------------------------- state --------------------------------- *)
VARIABLES
    indexes,    \* this._geoJSONIndexes: source id -> index, NoIndex when absent
    loaded,     \* this.loaded: source id -> set of uids of loaded tiles
    pending,    \* loadData calls waiting in ajax.getJSON
    nextCall,   \* number of the next loadData call
    last,       \* what the last operation did
    agg         \* the aggregation functions _indexData made, and their use

vars == <<indexes, loaded, pending, nextCall, last, agg>>

NoIndex == [call |-> 0, engine |-> "none", data |-> Undefined, agg |-> <<>>]

(* ------------------------- cluster aggregation ------------------------- *)
\* Property keys, and the values a feature can carry for one of them: "A",
\* "B", the empty string, 0 and false; Undefined for a key it does not carry.
PropKeys == {"name", "kind"}
PropValues ==
    {JSValue("string", 1), JSValue("string", 2), JSValue("string", 0),
     JSValue("number", 0), JSValue("boolean", 0)}
Props == [PropKeys -> PropValues \cup {Undefined}]
\* params.clusterMapProperties: absent (<<>>) or an ordered list of keys.
KeyLists == {<<"name">>, <<"name", "kind">>}
Range(seq) == {seq[i] : i \in 1..Len(seq)}

\* superclusterOptions.initial as _indexData defines it (lines 196-204).
initial(keys) == [k \in Range(keys) |-> <<>>]

\* superclusterOptions.reduce as _indexData defines it (lines 205-213).
reduce(keys, accumulated, props) ==
    [k \in DOMAIN accumulated |->
        IF k \in Range(keys) /\ Truthy(props[k])
        THEN Append(accumulated[k], props[k])
        ELSE accumulated[k]]

\* The options an index engine is given: which options object of params, and
\* the keys of the aggregation functions attached to it (<<>>: none).
Options(name, keys) == [name |-> name, agg |-> keys]

\* The properties supercluster gives a cluster of the points whose properties
\* are listed in points: options.initial(), then options.reduce for each point
\* in turn; without the two functions a cluster aggregates nothing.
RECURSIVE Accumulate(_, _)
Accumulate(keys, points) ==
    IF points = <<>>
    THEN initial(keys)
    ELSE reduce(keys, Accumulate(keys, SubSeq(points, 1, Len(points) - 1)),
                points[Len(points)])


(* --------------------------- index engines ----------------------------- *)
\* As BuildIndex, but with the two engines exchanged.
BuildIndexSwapped(params, call, data) ==
    IF params.cluster
    THEN [call |-> call, engine |-> "geojsonvt", data |-> data, agg |-> <<>>]
    ELSE [call |-> call, engine |-> "supercluster", data |-> data, agg |-> <<>>]

\* The index loadData installs (lines 114-116): supercluster over data.features
\* when params.cluster, else geojson-vt over the whole data object.  The call
\* number identifies the instance, data is what it was built from.
BuildIndex(params, call, data) ==
    IF params.cluster
    THEN [call |-> call, engine |-> "supercluster", data |-> data, agg |-> <<>>]
    ELSE [call |-> call, engine |-> "geojsonvt", data |-> data, agg |-> <<>>]

\* The engine call that builds it: the engine and the argument it is given.
\* Line 115 hands supercluster params.superclusterOptions as the client sent
\* it: loadData attaches no aggregation function and does not call _indexData.
EngineCall(params, data) ==
    IF params.cluster
    THEN [engine |-> "supercluster", data |-> data, part |-> "features",
          options |-> Options("superclusterOptions", <<>>)]
    ELSE [engine |-> "geojsonvt", data |-> data, part |-> "whole",
          options |-> Options("geojsonVtOptions", <<>>)]

\* index.getTile(z, x, y) of the engines: a slice, or nothing for a tile that
\* holds no features.  Which tiles hold features depends on the data; here a
\* fixed pattern that differs between index instances.
NoSlice == [call |-> 0, z |-> 0, x |-> 0, y |-> 0]
getTile(index, z, x, y) ==
    IF (index.call + z + x + y) % 2 = 0
    THEN NoSlice
    ELSE [call |-> index.call, z |-> z, x |-> x, y |-> y]

(* ------------------------------ loadData ------------------------------- *)
\* What the environment decides for one loadData call: whether geojson-rewind
\* throws, whether the index engine throws, and whether the caller's callback
\* throws on its first invocation; at most one of them per call.
Envs ==
    {e \in [rewindThrows : BOOLEAN, buildThrows : BOOLEAN, cbThrows : BOOLEAN] :
        Cardinality({f \in {"r", "b", "c"} :
            \/ f = "r" /\ e.rewindThrows
            \/ f = "b" /\ e.buildThrows
            \/ f = "c" /\ e.cbThrows}) <= 1}

LoadResult(idx, ld, cb, thrown, rewound, engine) ==
    [indexes |-> idx, loaded |-> ld, cb |-> cb, thrown |-> thrown,
     rewound |-> rewound, engine |-> engine]

\* Whether the n-th invocation of the caller's callback throws.
CallbackThrows(env, n) == env.cbThrows /\ n = 1

\* As loadDataCallback, but the entry of the source is dropped before the
\* index is built, so that a failing build leaves no entry.
loadDataCallbackDropFirst(idx, ld, params, call, err, data, env, done) ==
    IF err # NoErr \/ ~Truthy(data)
    THEN LoadResult(idx, ld, <<err>>, CallbackThrows(env, done + 1), <<>>, <<>>)
    ELSE IF TypeOf(data) # "object"
    THEN LoadResult(idx, ld, <<InvalidInputError>>,
                    CallbackThrows(env, done + 1), <<>>, <<>>)
    ELSE IF env.rewindThrows
    THEN LoadResult(idx, ld, <<>>, TRUE, <<data>>, <<>>)
    ELSE IF env.buildThrows
    THEN LoadResult([idx EXCEPT ![params.source] = NoIndex],
                    [ld EXCEPT ![params.source] = {}],
                    <<BuildError>>, CallbackThrows(env, done + 1),
                    <<data>>, <<EngineCall(params, data)>>)
    ELSE LoadResult([idx EXCEPT ![params.source] = BuildIndex(params, call, data)],
                    [ld EXCEPT ![params.source] = {}],
                    <<NoErr>>, CallbackThrows(env, done + 1),
                    <<data>>, <<EngineCall(params, data)>>)

\* As loadDataCallback, but without the try block around the index engine: an
\* exception of the engine leaves the function.
loadDataCallbackNoCatch(idx, ld, params, call, err, data, env, done) ==
    IF err # NoErr \/ ~Truthy(data)
    THEN LoadResult(idx, ld, <<err>>, CallbackThrows(env, done + 1), <<>>, <<>>)
    ELSE IF TypeOf(data) # "object"
    THEN LoadResult(idx, ld, <<InvalidInputError>>,
                    CallbackThrows(env, done + 1), <<>>, <<>>)
    ELSE IF env.rewindThrows
    THEN LoadResult(idx, ld, <<>>, TRUE, <<data>>, <<>>)
    ELSE IF env.buildThrows
    THEN LoadResult(idx, ld, <<>>, TRUE, <<data>>, <<EngineCall(params, data)>>)
    ELSE LoadResult([idx EXCEPT ![params.source] = BuildIndex(params, call, data)],
                    [ld EXCEPT ![params.source] = {}],
                    <<NoErr>>, CallbackThrows(env, done + 1),
                    <<data>>, <<EngineCall(params, data)>>)

\* As loadDataCallback, but an error of the loader is reported as invalid
\* input.
loadDataCallbackWrapError(idx, ld, params, call, err, data, env, done) ==
    IF err # NoErr \/ ~Truthy(data)
    THEN LoadResult(idx, ld, <<IF err # NoErr THEN InvalidInputError ELSE err>>,
                    CallbackThrows(env, done + 1), <<>>, <<>>)
    ELSE IF TypeOf(data) # "object"
    THEN LoadResult(idx, ld, <<InvalidInputError>>,
                    CallbackThrows(env, done + 1), <<>>, <<>>)
    ELSE IF env.rewindThrows
    THEN LoadResult(idx, ld, <<>>, TRUE, <<data>>, <<>>)
    ELSE IF env.buildThrows
    THEN LoadResult(idx, ld, <<BuildError>>, CallbackThrows(env, done + 1),
                    <<data>>, <<EngineCall(params, data)>>)
    ELSE LoadResult([idx EXCEPT ![params.source] = BuildIndex(params, call, data)],
                    [ld EXCEPT ![params.source] = {}],
                    <<NoErr>>, CallbackThrows(env, done + 1),
                    <<data>>, <<EngineCall(params, data)>>)

\* As loadDataCallback, but a successful build empties the loaded-tile
\* tracking of every source.
loadDataCallbackResetAll(idx, ld, params, call, err, data, env, done) ==
    IF err # NoErr \/ ~Truthy(data)
    THEN LoadResult(idx, ld, <<err>>, CallbackThrows(env, done + 1), <<>>, <<>>)
    ELSE IF TypeOf(data) # "object"
    THEN LoadResult(idx, ld, <<InvalidInputError>>,
                    CallbackThrows(env, done + 1), <<>>, <<>>)
    ELSE IF env.rewindThrows
    THEN LoadResult(idx, ld, <<>>, TRUE, <<data>>, <<>>)
    ELSE IF env.buildThrows
    THEN LoadResult(idx, ld, <<BuildError>>, CallbackThrows(env, done + 1),
                    <<data>>, <<EngineCall(params, data)>>)
    ELSE LoadResult([idx EXCEPT ![params.source] = BuildIndex(params, call, data)],
                    [s \in DOMAIN ld |-> {}],
                    <<NoErr>>, CallbackThrows(env, done + 1),
                    <<data>>, <<EngineCall(params, data)>>)

\* The callback loadData hands to loadGeoJSON (lines 105-124), invoked with
\* (err, data) when the caller's callback was invoked done times before.
\* thrown: an exception leaves this function.
loadDataCallback(idx, ld, params, call, err, data, env, done) ==
    IF err # NoErr \/ ~Truthy(data)
    THEN LoadResult(idx, ld, <<err>>, CallbackThrows(env, done + 1), <<>>, <<>>)
    ELSE IF TypeOf(data) # "object"
    THEN LoadResult(idx, ld, <<InvalidInputError>>,
                    CallbackThrows(env, done + 1), <<>>, <<>>)
    ELSE IF env.rewindThrows
    THEN LoadResult(idx, ld, <<>>, TRUE, <<data>>, <<>>)
    ELSE IF env.buildThrows
    THEN LoadResult(idx, ld, <<BuildError>>, CallbackThrows(env, done + 1),
                    <<data>>, <<EngineCall(params, data)>>)
    ELSE LoadResult([idx EXCEPT ![params.source] = BuildIndex(params, call, data)],
                    [ld EXCEPT ![params.source] = {}],
                    <<NoErr>>, CallbackThrows(env, done + 1),
                    <<data>>, <<EngineCall(params, data)>>)

\* As loadGeoJSON, but text that does not parse is passed on as no data
\* instead of an error.
loadGeoJSONNoCatch(idx, ld, params, call, env) ==
    IF params.data.t = "string"
    THEN LET r1 == loadDataCallback(idx, ld, params, call, NoErr,
                                    JSONparse(params.data).value, env, 0)
         IN IF r1.thrown
            THEN LET r2 == loadDataCallback(r1.indexes, r1.loaded, params, call,
                                            InvalidInputError, Undefined, env,
                                            Len(r1.cb))
                 IN LoadResult(r2.indexes, r2.loaded, r1.cb \o r2.cb, r2.thrown,
                               r1.rewound \o r2.rewound, r1.engine \o r2.engine)
            ELSE r1
    ELSE loadDataCallback(idx, ld, params, call, NoErr, Undefined, env, 0)

\* loadGeoJSON without params.url (lines 166-174) together with the callback
\* above.  The callback runs inside the try block of line 167, so an exception
\* leaving it is caught at line 169 and the callback is invoked again.
loadGeoJSON(idx, ld, params, call, env) ==
    IF params.data.t = "string"
    THEN LET p == JSONparse(params.data) IN
         IF ~p.ok
         THEN loadDataCallback(idx, ld, params, call, InvalidInputError,
                               Undefined, env, 0)
         ELSE LET r1 == loadDataCallback(idx, ld, params, call, NoErr,
                                         p.value, env, 0)
              IN IF r1.thrown
                 THEN LET r2 == loadDataCallback(r1.indexes, r1.loaded, params,
                                                 call, InvalidInputError,
                                                 Undefined, env, Len(r1.cb))
                      IN LoadResult(r2.indexes, r2.loaded, r1.cb \o r2.cb,
                                    r2.thrown, r1.rewound \o r2.rewound,
                                    r1.engine \o r2.engine)
                 ELSE r1
    ELSE loadDataCallback(idx, ld, params, call, InvalidInputError,
                          Undefined, env, 0)

\* What ajax.getJSON can deliver: an error, or any parsed JSON value.
FetchOutcomes ==
    {[err |-> FetchError, data |-> Undefined]}
        \cup {[err |-> NoErr, data |-> v] : v \in ParsedValues}
NoFetch == [err |-> NoErr, data |-> Undefined]

(* ------------------------------ _indexData ---------------------------- *)
MaxPoints == 2

IndexParams == [cluster : BOOLEAN, clusterMapProperties : {<<>>} \cup KeyLists]
NoProps == [k \in PropKeys |-> Undefined]

\* _indexData (lines 190-223): engine is the call made to the index engine,
\* with the options it is given; cb what the callback receives.  The callback
\* runs inside the try block, so an exception leaving it is caught at line 220
\* and the callback is invoked again with that exception.
_indexData(params, env) ==
    LET options == IF params.cluster
                   THEN Options("superclusterOptions", params.clusterMapProperties)
                   ELSE Options("geojsonVtOptions", <<>>)
        call == [engine |-> IF params.cluster THEN "supercluster" ELSE "geojsonvt",
                 part |-> IF params.cluster THEN "features" ELSE "whole",
                 options |-> options]
    IN IF env.buildThrows
       THEN [engine |-> <<call>>, cb |-> <<BuildError>>,
             thrown |-> CallbackThrows(env, 1)]
       ELSE IF CallbackThrows(env, 1)
       THEN [engine |-> <<call>>, cb |-> <<NoErr, "callback error">>,
             thrown |-> CallbackThrows(env, 2)]
       ELSE [engine |-> <<call>>, cb |-> <<NoErr>>, thrown |-> FALSE]

NoAgg ==
    [op |-> "none", call |-> [engine |-> <<>>, cb |-> <<>>, thrown |-> FALSE],
     n |-> 0, acc |-> <<>>, prev |-> <<>>, props |-> NoProps]

(* ------------------------------ tile query ----------------------------- *)
Min(a, b) == IF a < b THEN a ELSE b

NullTile == [kind |-> "null", slice |-> NoSlice]
GeoJSONWrapper(slice) == [kind |-> "_geojsonTileLayer", slice |-> slice]

\* As loadGeoJSONTile, but an unknown source is reported as an error.
loadGeoJSONTileError(idx, params) ==
    IF idx[params.source] = NoIndex
    THEN [cb |-> <<[err |-> "unknown source", data |-> NullTile]>>, query |-> <<>>]
    ELSE LET geoJSONTile == getTile(idx[params.source],
                                    Min(params.coord.z, params.maxZoom),
                                    params.coord.x, params.coord.y)
         IN [cb |-> <<[err |-> NoErr,
                       data |-> IF geoJSONTile = NoSlice THEN NullTile
                                ELSE GeoJSONWrapper(geoJSONTile)]>>,
             query |-> <<<<Min(params.coord.z, params.maxZoom), params.coord.x,
                           params.coord.y>>>>]

\* As loadGeoJSONTile, but the index is queried at the requested zoom.
loadGeoJSONTileRawZoom(idx, params) ==
    IF idx[params.source] = NoIndex
    THEN [cb |-> <<[err |-> NoErr, data |-> NullTile]>>, query |-> <<>>]
    ELSE LET geoJSONTile == getTile(idx[params.source], params.coord.z,
                                    params.coord.x, params.coord.y)
         IN [cb |-> <<[err |-> NoErr,
                       data |-> IF geoJSONTile = NoSlice THEN NullTile
                                ELSE GeoJSONWrapper(geoJSONTile)]>>,
             query |-> <<<<params.coord.z, params.coord.x, params.coord.y>>>>]

\* loadGeoJSONTile (lines 37-62): cb is the (err, data) the callback receives,
\* query the getTile calls made on the index.
loadGeoJSONTile(idx, params) ==
    IF idx[params.source] = NoIndex
    THEN [cb |-> <<[err |-> NoErr, data |-> NullTile]>>, query |-> <<>>]
    ELSE LET z == Min(params.coord.z, params.maxZoom)
             geoJSONTile == getTile(idx[params.source], z, params.coord.x,
                                    params.coord.y)
         IN IF geoJSONTile = NoSlice
            THEN [cb |-> <<[err |-> NoErr, data |-> NullTile]>>,
                  query |-> <<<<z, params.coord.x, params.coord.y>>>>]
            ELSE [cb |-> <<[err |-> NoErr, data |-> GeoJSONWrapper(geoJSONTile)]>>,
                  query |-> <<<<z, params.coord.x, params.coord.y>>>>]

\* loadTile of the surrounding tile-loading layer (VectorTileWorkerSource):
\* runs the tile query and records the uid as loaded once a tile was served.
\* An empty tile of a registered source is recorded or not (recordNull); the
\* answer for a source without an index is no service of a tile.
loadTile(idx, ld, params, recordNull) ==
    LET r == loadGeoJSONTile(idx, params)
        served == /\ r.cb[1].err = NoErr
                  /\ \/ r.cb[1].data # NullTile
                     \/ recordNull /\ r.query # <<>>
    IN [loaded |-> IF served
                   THEN [ld EXCEPT ![params.source] = @ \cup {params.uid}]
                   ELSE ld,
        cb |-> r.cb, query |-> r.query, path |-> "full"]

\* As reloadTile, but a uid counts as loaded when any source has loaded it.
reloadTileAnySource(idx, ld, params, recordNull) ==
    IF \E s \in Sources : params.uid \in ld[s]
    THEN [loaded |-> ld, cb |-> <<>>, query |-> <<>>, path |-> "incremental"]
    ELSE loadTile(idx, ld, params, recordNull)

\* As reloadTile, but the incremental path forgets the uid.
reloadTileForget(idx, ld, params, recordNull) ==
    IF params.uid \in ld[params.source]
    THEN [loaded |-> [ld EXCEPT ![params.source] = @ \ {params.uid}],
          cb |-> <<>>, query |-> <<>>, path |-> "incremental"]
    ELSE loadTile(idx, ld, params, recordNull)

\* reloadTile (lines 137-146): the parent's incremental reload for a loaded
\* uid, a fresh loadTile otherwise.
reloadTile(idx, ld, params, recordNull) ==
    IF params.uid \in ld[params.source]
    THEN [loaded |-> ld, cb |-> <<>>, query |-> <<>>, path |-> "incremental"]
    ELSE loadTile(idx, ld, params, recordNull)

\* As removeSource, but deleting an id that has no index fails.
removeSourceStrict(idx, params) ==
    IF idx[params.source] # NoIndex
    THEN [indexes |-> [idx EXCEPT ![params.source] = NoIndex], thrown |-> FALSE]
    ELSE [indexes |-> idx, thrown |-> TRUE]

\* removeSource (lines 177-181).
removeSource(idx, params) ==
    IF idx[params.source] # NoIndex
    THEN [indexes |-> [idx EXCEPT ![params.source] = NoIndex], thrown |-> FALSE]
    ELSE [indexes |-> idx, thrown |-> FALSE]

(* ------------------------------ operations ----------------------------- *)
\* params.clusterMapProperties of a loadData call: absent, or a list of keys.
MapProperties == {<<>>, <<"name">>}
LoadParams ==
    [source : Sources, url : BOOLEAN, data : LiteralData, cluster : BOOLEAN,
     clusterMapProperties : MapProperties]
TileParams == [source : Sources, uid : Uids, coord : Coords, maxZoom : MaxZooms]

NoCoord == [z |-> 0, x |-> 0, y |-> 0]
NoEnv == [rewindThrows |-> FALSE, buildThrows |-> FALSE, cbThrows |-> FALSE]
NoLast ==
    [op |-> "init", source |-> "", call |-> 0, url |-> FALSE, data |-> NoData,
     cluster |-> FALSE, clusterMapProperties |-> <<>>, env |-> NoEnv,
     fetch |-> NoFetch, cb |-> <<>>, thrown |-> FALSE,
     rewound |-> <<>>, engine |-> <<>>, uid |-> 0, coord |-> NoCoord,
     maxZoom |-> 0, tile |-> <<>>, query |-> <<>>, path |-> "none"]

LoadLast(op, params, call, env, fetch, r) ==
    [op |-> op, source |-> params.source, call |-> call, url |-> params.url,
     data |-> params.data, cluster |-> params.cluster,
     clusterMapProperties |-> params.clusterMapProperties, env |-> env,
     fetch |-> fetch, cb |-> r.cb, thrown |-> r.thrown,
     rewound |-> r.rewound, engine |-> r.engine, uid |-> 0, coord |-> NoCoord,
     maxZoom |-> 0, tile |-> <<>>, query |-> <<>>, path |-> "none"]

TileLast(op, params, r) ==
    [op |-> op, source |-> params.source, call |-> 0, url |-> FALSE,
     data |-> NoData, cluster |-> FALSE, clusterMapProperties |-> <<>>,
     env |-> NoEnv, fetch |-> NoFetch, cb |-> <<>>, thrown |-> FALSE,
     rewound |-> <<>>, engine |-> <<>>, uid |-> params.uid,
     coord |-> params.coord, maxZoom |-> params.maxZoom, tile |-> r.cb,
     query |-> r.query, path |-> r.path]

Init ==
    /\ indexes = [s \in Sources |-> NoIndex]
    /\ loaded = [s \in Sources |-> {}]
    /\ pending = {}
    /\ nextCall = 1
    /\ last = NoLast
    /\ agg = NoAgg

\* rewind and the index engine run only for data that passes the checks of
\* lines 106-108: a fault in them is possible for such data alone.
Reaches(err, data, env) ==
    (env.rewindThrows \/ env.buildThrows)
        => (err = NoErr /\ Truthy(data) /\ TypeOf(data) = "object")

\* loadData with literal data (no params.url): loadGeoJSON calls back at once.
LoadDataLiteral ==
    \E params \in LoadParams, env \in Envs :
        /\ nextCall <= MaxCalls
        /\ ~params.url
        /\ params.clusterMapProperties # <<>> =>
               (params.cluster /\ params.data = StringData("object", 1))
        /\ Reaches(NoErr, IF params.data.t = "string"
                          THEN JSONparse(params.data).value ELSE Undefined, env)
        /\ LET r == loadGeoJSON(indexes, loaded, params, nextCall, env) IN
               /\ indexes' = r.indexes
               /\ loaded' = r.loaded
               /\ last' = LoadLast("loadData", params, nextCall, env, NoFetch, r)
        /\ nextCall' = nextCall + 1
        /\ UNCHANGED <<pending, agg>>

\* loadData with params.url: loadGeoJSON hands the callback to ajax.getJSON
\* (line 165) and returns.  The waiting callback reads params.source and
\* params.cluster, and nothing else of params.
LoadDataRemote ==
    \E params \in LoadParams :
        /\ nextCall <= MaxCalls
        /\ params.url
        /\ params.clusterMapProperties = <<>>
        /\ params.data \in {NoData, StringData("object", 1)}
        /\ pending' = pending \cup {[call |-> nextCall, source |-> params.source,
                                     cluster |-> params.cluster]}
        /\ nextCall' = nextCall + 1
        /\ last' = LoadLast("loadDataIssue", params, nextCall, NoEnv, NoFetch,
                            LoadResult(indexes, loaded, <<>>, FALSE, <<>>, <<>>))
        /\ UNCHANGED <<indexes, loaded, agg>>

\* ajax.getJSON completes one waiting call and invokes the callback of
\* lines 105-124.
FetchComplete ==
    \E p \in pending, out \in FetchOutcomes, env \in Envs :
        /\ Reaches(out.err, out.data, env)
        /\ LET params == [source |-> p.source, url |-> TRUE, data |-> NoData,
                          cluster |-> p.cluster, clusterMapProperties |-> <<>>]
               r == loadDataCallback(indexes, loaded, params, p.call, out.err,
                                     out.data, env, 0)
           IN /\ indexes' = r.indexes
              /\ loaded' = r.loaded
              /\ last' = LoadLast("loadDataDone", params, p.call, env, out, r)
        /\ pending' = pending \ {p}
        /\ UNCHANGED <<nextCall, agg>>

LoadTile ==
    \E params \in TileParams, recordNull \in BOOLEAN :
        LET r == loadTile(indexes, loaded, params, recordNull) IN
            /\ recordNull => (r.cb[1].data = NullTile /\ r.query # <<>>)
            /\ loaded' = r.loaded
            /\ last' = TileLast("loadTile", params, r)
            /\ UNCHANGED <<indexes, pending, nextCall, agg>>

ReloadTile ==
    \E params \in TileParams, recordNull \in BOOLEAN :
        LET r == reloadTile(indexes, loaded, params, recordNull) IN
            /\ recordNull =>
                   (r.cb # <<>> /\ r.cb[1].data = NullTile /\ r.query # <<>>)
            /\ loaded' = r.loaded
            /\ last' = TileLast("reloadTile", params, r)
            /\ UNCHANGED <<indexes, pending, nextCall, agg>>

RemoveSource ==
    \E s \in Sources :
        LET r == removeSource(indexes, [source |-> s]) IN
            /\ indexes' = r.indexes
            /\ last' = [NoLast EXCEPT !.op = "removeSource", !.source = s,
                                      !.thrown = r.thrown]
            /\ UNCHANGED <<loaded, pending, nextCall, agg>>

Next ==
    \/ LoadDataLiteral
    \/ LoadDataRemote
    \/ FetchComplete
    \/ LoadTile
    \/ ReloadTile
    \/ RemoveSource

Spec == Init /\ [][Next]_vars

(* ------------------- the aggregation functions at work ------------------ *)
\* _indexData is run on its own, and the functions it attaches to the cluster
\* options are applied as supercluster applies them: initial() for a new
\* cluster, then reduce(accumulated, props) for each of its points.
IndexData ==
    \E params \in IndexParams, env \in Envs :
        /\ ~env.rewindThrows
        /\ agg' = [NoAgg EXCEPT !.op = "_indexData",
                                !.call = _indexData(params, env)]
        /\ UNCHANGED <<indexes, loaded, pending, nextCall, last>>

InitialAccumulator ==
    /\ agg.op # "none"
    /\ agg.call.engine # <<>>
    /\ agg.call.engine[1].options.agg # <<>>
    /\ agg' = [agg EXCEPT !.op = "initial", !.n = 0,
                          !.acc = initial(agg.call.engine[1].options.agg),
                          !.prev = <<>>, !.props = NoProps]
    /\ UNCHANGED <<indexes, loaded, pending, nextCall, last>>

Reduce ==
    \E props \in Props :
        /\ agg.op \in {"initial", "reduce"}
        /\ agg.n < MaxPoints
        /\ agg' = [agg EXCEPT !.op = "reduce", !.n = agg.n + 1,
                              !.acc = reduce(agg.call.engine[1].options.agg,
                                             agg.acc, props),
                              !.prev = agg.acc, !.props = props]
        /\ UNCHANGED <<indexes, loaded, pending, nextCall, last>>

NextAgg ==
    \/ IndexData
    \/ InitialAccumulator
    \/ Reduce

SpecAgg == Init /\ [][NextAgg]_vars

(* ------------------------------- claims -------------------------------- *)
LoadOps == {"loadData", "loadDataDone"}
TileOps == {"loadTile", "reloadTile"}

\* The last operation ran the tile query (a loadTile, or a reloadTile that
\* took the full-load path).
Queried == last.op \in TileOps /\ last.path = "full"

\* Tile requests for a registered source whose index has no slice for them.
EmptyTileRequests ==
    {p \in TileParams :
        /\ indexes[p.source] # NoIndex
        /\ getTile(indexes[p.source], Min(p.coord.z, p.maxZoom), p.coord.x,
                   p.coord.y) = NoSlice}

C2_ClampedZoom ==
    (Queried /\ indexes[last.source] # NoIndex) =>
        /\ Len(last.query) = 1
        /\ last.query[1][1] <= last.coord.z
        /\ last.query[1][1] <= last.maxZoom
        /\ last.query[1][1] \in {last.coord.z, last.maxZoom}
        /\ last.query[1][2] = last.coord.x
        /\ last.query[1][3] = last.coord.y

C2_Witness ==
    /\ Queried
    /\ indexes[last.source] # NoIndex
    /\ last.coord.z > last.maxZoom
    /\ last.query = <<<<last.maxZoom, last.coord.x, last.coord.y>>>>

\* The loadData call just completed installed its index as the entry of its
\* source.
Replaced == last.op \in LoadOps /\ indexes[last.source].call = last.call

\* C3: reloadTile takes the incremental path exactly when the uid is in the
\* loaded-tile tracking of the source, the full-load path otherwise; once a
\* loadData has replaced the entry of a source, reloadTile takes the full-load
\* path for every uid that was loaded before.
C3_ReloadPath ==
    [][/\ last'.op = "reloadTile" =>
            /\ last'.path \in {"incremental", "full"}
            /\ last'.path = "incremental" <=> last'.uid \in loaded[last'.source]
       /\ Replaced' =>
            \A p \in TileParams :
                (p.source = last'.source /\ p.uid \in loaded[p.source]) =>
                    reloadTile(indexes', loaded', p, FALSE).path = "full"]_vars

\* A loaded uid was reloaded on the incremental path while the other source
\* has loaded nothing.
C3_Witness ==
    /\ last.op = "reloadTile"
    /\ last.path = "incremental"
    /\ \E s \in Sources : loaded[s] = {}
    /\ nextCall > MaxCalls

\* Every delivery to the callback of the last loadData was an error.
EndedWithError ==
    /\ last.op \in LoadOps
    /\ last.cb # <<>>
    /\ \A i \in 1..Len(last.cb) : last.cb[i] # NoErr

\* C4: a loadData that delivers an error to its callback (and never success)
\* leaves the index and the loaded-tile tracking of every source as they were
\* when its loader ran.
C4_ErrorLeavesEntry ==
    [][EndedWithError' => (indexes' = indexes /\ loaded' = loaded)]_vars

\* An index build failed for a source that keeps its prior index and its
\* loaded tiles.
C4_Witness ==
    /\ EndedWithError
    /\ last.cb = <<BuildError>>
    /\ indexes[last.source] # NoIndex
    /\ loaded[last.source] # {}

\* C5 as stated: whenever loadData invokes its callback without an error, the
\* registry holds for params.source the index built by that call from its
\* data, and the loaded-tile tracking of that source is empty.
C5_SuccessMeansInstalled ==
    (last.op \in LoadOps /\ \E i \in 1..Len(last.cb) : last.cb[i] = NoErr) =>
        /\ indexes[last.source].call = last.call
        /\ last.engine # <<>>
        /\ indexes[last.source].data = last.engine[1].data
        /\ loaded[last.source] = {}

\* C6 as stated, for calls that load GeoJSON objects: a loadData whose loader
\* resolves after a later-issued call for the same source has installed its
\* index does not overwrite that index.
C6_StaleDoesNotOverwrite ==
    [][(/\ last'.op = "loadDataDone"
        /\ last'.fetch.data.t = "object"
        /\ indexes[last'.source].call > last'.call
        /\ indexes[last'.source].data.t = "object") =>
        indexes'[last'.source] = indexes[last'.source]]_vars

\* C7: removeSource never fails, leaves the id without an index, changes
\* nothing for an id that has none, and a second call in a row changes nothing.
C7_RemoveIdempotent ==
    [][last'.op = "removeSource" =>
        /\ ~last'.thrown
        /\ indexes'[last'.source] = NoIndex
        /\ indexes[last'.source] = NoIndex => indexes' = indexes
        /\ (last.op = "removeSource" /\ last.source = last'.source) =>
                indexes' = indexes
        /\ removeSource(indexes', [source |-> last'.source]).indexes = indexes'
        /\ \A s \in Sources \ {last'.source} : indexes'[s] = indexes[s]]_vars

\* removeSource was called for an id without an index after an index was
\* removed.
C7_Witness ==
    /\ last.op = "removeSource"
    /\ indexes = [s \in Sources |-> NoIndex]
    /\ nextCall > MaxCalls
    /\ pending = {}

\* C8 as stated, for a source whose index was built from a GeoJSON object and
\* served a tile right before the removal: after removeSource(s) a tile query
\* for s gets the no-source result and reloadTile takes the full-load path for
\* every uid of s, also for the one loaded before the removal.
C8_RemoveDestroysEntry ==
    [][(/\ last.op = "loadTile"
        /\ last.tile[1].data # NullTile
        /\ indexes[last.source].data.t = "object"
        /\ last'.op = "removeSource"
        /\ last'.source = last.source) =>
        \A p \in TileParams :
            p.source = last'.source =>
                /\ loadGeoJSONTile(indexes', p).cb
                       = <<[err |-> NoErr, data |-> NullTile]>>
                /\ loadGeoJSONTile(indexes', p).query = <<>>
                /\ reloadTile(indexes', loaded', p, FALSE).path = "full"]_vars

\* The literal data of the last loadData is text that does not parse, or is
\* absent.
Unparsable ==
    /\ last.op = "loadData"
    /\ ~last.url
    /\ \/ last.data = NoData
       \/ last.data.t = "string" /\ ~JSONparse(last.data).ok

\* C9: a loadData without url whose literal data is unparsable text or absent
\* delivers InvalidInputError to its callback, and creates or replaces no
\* entry: nothing is rewound or indexed and no index is of that call.
C9_InvalidInput ==
    Unparsable =>
        /\ last.cb = <<InvalidInputError>>
        /\ last.rewound = <<>>
        /\ last.engine = <<>>
        /\ \A s \in Sources : indexes[s].call # last.call

\* Unparsable text was given for a source that keeps the index of an earlier
\* call.
C9_Witness ==
    /\ Unparsable
    /\ last.data.t = "string"
    /\ indexes[last.source] # NoIndex

\* C10 as stated: a loadData whose literal input is text encoding a JSON array
\* delivers InvalidInputError, in cluster and in tile mode, and the array
\* reaches neither the winding normalizer nor an index engine.
C10_ArrayRejected ==
    (last.op = "loadData" /\ last.data = StringData("array", 0)) =>
        /\ last.cb = <<InvalidInputError>>
        /\ last.rewound = <<>>
        /\ last.engine = <<>>

\* C11 as stated: without params.url, literal data that is an already parsed
\* object is passed on by loadGeoJSON as the data, with no error, so that
\* loadData goes on to normalize and index it.
C11_ObjectLiteralAccepted ==
    (last.op = "loadData" /\ ~last.url /\ last.data.t = "object") =>
        /\ last.rewound = <<JSValue("object", last.data.n)>>
        /\ \A i \in 1..Len(last.cb) : last.cb[i] # InvalidInputError

\* Properties of two points that carry "A" and "B" for every key.
PointA == [k \in PropKeys |-> JSValue("string", 1)]
PointB == [k \in PropKeys |-> JSValue("string", 2)]

\* C12 as stated: a loadData in cluster mode with clusterMapProperties that
\* installs its index hands the engine options with the synthesized initial and
\* reduce attached, so that a cluster of the installed index formed from points
\* carrying "A" and "B" accumulates <<"A", "B">> for every listed key.
C12_AggregationAttached ==
    (/\ last.op = "loadData"
     /\ last.cluster
     /\ last.clusterMapProperties # <<>>
     /\ Replaced) =>
        /\ last.engine[1].options.agg = last.clusterMapProperties
        /\ indexes[last.source].agg = last.clusterMapProperties
        /\ LET acc == Accumulate(indexes[last.source].agg, <<PointA, PointB>>)
           IN \A k \in Range(last.clusterMapProperties) :
                  /\ k \in DOMAIN acc
                  /\ acc[k] = <<JSValue("string", 1), JSValue("string", 2)>>

\* The engine call the cluster flag chooses: supercluster over data.features
\* with superclusterOptions, or geojson-vt over all of data with
\* geojsonVtOptions.
ChosenEngine(cluster) ==
    IF cluster
    THEN [engine |-> "supercluster", part |-> "features",
          options |-> "superclusterOptions"]
    ELSE [engine |-> "geojsonvt", part |-> "whole",
          options |-> "geojsonVtOptions"]

\* C13: the index a loadData installs is the one the chosen engine builds from
\* the data of that call, and a tile query at z <= maxZoom for a registered
\* source delivers the slice that getTile(z, x, y) of its installed index
\* returns, or no tile where getTile returns none.
C13_TileEqualsDirectQuery ==
    /\ Replaced =>
          /\ Len(last.engine) = 1
          /\ last.engine[1].engine = ChosenEngine(last.cluster).engine
          /\ last.engine[1].part = ChosenEngine(last.cluster).part
          /\ last.engine[1].options.name = ChosenEngine(last.cluster).options
          /\ last.engine[1].data = last.rewound[1]
          /\ indexes[last.source].engine = last.engine[1].engine
          /\ indexes[last.source].data = last.engine[1].data
    /\ (/\ Queried
        /\ indexes[last.source] # NoIndex
        /\ last.coord.z <= last.maxZoom) =>
          LET direct == getTile(indexes[last.source], last.coord.z,
                                last.coord.x, last.coord.y)
          IN last.tile = <<[err |-> NoErr,
                            data |-> IF direct = NoSlice THEN NullTile
                                     ELSE GeoJSONWrapper(direct)]>>

\* A tile of a cluster index was served at a zoom below maxZoom.
C13_Witness ==
    /\ Queried
    /\ indexes[last.source].engine = "supercluster"
    /\ indexes[last.source].data.t = "object"
    /\ last.coord.z < last.maxZoom
    /\ last.tile[1].data # NullTile

\* C14: when the index engine throws during a loadData, with literal or with
\* fetched data and in either mode, the exception is delivered to the callback
\* of that call as its error, in its only invocation, and no exception leaves
\* loadData.
C14_BuildErrorDelivered ==
    (last.op \in LoadOps /\ last.env.buildThrows) =>
        /\ Len(last.engine) = 1
        /\ last.cb = <<BuildError>>
        /\ ~last.thrown

\* The cluster engine threw on fetched data.
C14_Witness ==
    /\ last.op = "loadDataDone"
    /\ last.env.buildThrows
    /\ last.cluster
    /\ last.engine # <<>>
    /\ last.engine[1].engine = "supercluster"
    /\ last.cb = <<BuildError>>

\* C15: in every step and for every source, the loaded-tile tracking keeps all
\* its elements, unless the step is a loadData for that source that installed
\* its index, which leaves the tracking empty.
C15_LoadedOnlyGrows ==
    [][\A s \in Sources :
        \/ loaded[s] \subseteq loaded'[s]
        \/ /\ last'.op \in LoadOps
           /\ last'.source = s
           /\ Replaced'
           /\ loaded'[s] = {}]_vars

\* A second loadData emptied the tracking of its source while the other source
\* keeps its loaded tiles.
C15_Witness ==
    /\ Replaced
    /\ last.call > 1
    /\ loaded[last.source] = {}
    /\ \E s \in Sources : s # last.source /\ loaded[s] # {}

\* C16: a loadData with params.url, with or without literal data, only hands
\* its callback to the fetcher: it parses, normalizes and indexes nothing and
\* does not call back before the fetch completes; an error of the fetcher is
\* then passed to the callback of the call as it is, and nothing is indexed.
C16_FetchErrorVerbatim ==
    /\ last.op = "loadDataIssue" =>
          /\ last.url
          /\ last.cb = <<>> /\ last.rewound = <<>> /\ last.engine = <<>>
          /\ \E p \in pending : p.call = last.call /\ p.source = last.source
    /\ (last.op = "loadDataDone" /\ last.fetch.err # NoErr) =>
          /\ last.cb = <<last.fetch.err>>
          /\ last.rewound = <<>> /\ last.engine = <<>>

\* The fetch of a call failed while another call is still waiting.
C16_Witness ==
    /\ last.op = "loadDataDone"
    /\ last.fetch.err = FetchError
    /\ last.cb = <<FetchError>>
    /\ pending # {}

\* The keys of the functions _indexData attached for the cluster at hand.
AttachedKeys == agg.call.engine[1].options.agg

\* C17 as stated, for the functions _indexData makes for clusterMapProperties
\* = K: initial() returns exactly one empty sequence per key of K, and
\* reduce(acc, props) appends props[k] to acc[k] for every key k of K that
\* props carries, whatever the value (0, false and "" included), and leaves
\* acc[k] as it was for a key props does not carry.
C17_ReduceAppendsPresent ==
    /\ agg.op = "initial" =>
          /\ DOMAIN agg.acc = Range(AttachedKeys)
          /\ \A k \in Range(AttachedKeys) : agg.acc[k] = <<>>
    /\ agg.op = "reduce" =>
          /\ DOMAIN agg.acc = Range(AttachedKeys)
          /\ \A k \in Range(AttachedKeys) :
                IF agg.props[k] # Undefined
                THEN agg.acc[k] = Append(agg.prev[k], agg.props[k])
                ELSE agg.acc[k] = agg.prev[k]

\* C18 as stated, for fetches that deliver a GeoJSON object: when the fetch of
\* a loadData for a source resolves right after a removeSource of that source,
\* issued after that loadData, the source still has no index.
C18_NoResurrection ==
    [][(/\ last.op = "removeSource"
        /\ last'.op = "loadDataDone"
        /\ last'.source = last.source
        /\ last'.fetch.data.t = "object") =>
        indexes'[last'.source] = NoIndex]_vars

\* C19: every operation leaves the index and the loaded-tile tracking of every
\* source other than the one it names as they were, and no two sources hold
\* the same index instance.
C19_SourcesIsolated ==
    [][/\ \A s \in Sources :
            s # last'.source =>
                (indexes'[s] = indexes[s] /\ loaded'[s] = loaded[s])
       /\ \A s, t \in Sources :
            (s # t /\ indexes'[s] # NoIndex) =>
                indexes'[s].call # indexes'[t].call]_vars

\* A loadData installed its index while the other source has an index and
\* loaded tiles.
C19_Witness ==
    /\ Replaced
    /\ \E s \in Sources :
          /\ s # last.source
          /\ indexes[s] # NoIndex
          /\ loaded[s] # {}

\* C20 as stated, for the literal-text path: a loadData whose text parses to a
\* GeoJSON object invokes its callback exactly once, also when winding
\* normalization or the callback itself throws inside the try block of
\* loadGeoJSON.
C20_CallbackOnce ==
    (/\ last.op = "loadData"
     /\ last.data.t = "string"
     /\ JSONparse(last.data).ok
     /\ JSONparse(last.data).value.t = "object") =>
        Len(last.cb) = 1

====
